---- MODULE Spec2Model ----
(***************************************************************************)
(* Model of docling_haystack/converter.py: the DoclingConverter component  *)
(* (construction, run, to_dict / from_dict) and the default MetaExtractor. *)
(*                                                                         *)
(* The external collaborators (conversion engine, chunker, markdown        *)
(* export, file system) are the environment: each call either returns or   *)
(* raises, chosen nondeterministically at the step that makes the call.    *)
(* `log` is a history variable recording, per input item, what the         *)
(* collaborators did for it; `created` and `unlinked` record the temporary *)
(* files ever created and the unlink calls made.                           *)
(***************************************************************************)
EXTENDS Integers, Sequences, FiniteSets, TLC

\* Bounds of the model
MaxItems == 2
MaxChunks == 2

\* Python's None and an optional value
None == <<>>
Some(x) == <<x>>

\* class ExportType(str, Enum)
MARKDOWN == "markdown"
DOC_CHUNKS == "doc_chunks"
\* export_type is not validated by __init__; any other string can be passed
ExportTypes == {MARKDOWN, DOC_CHUNKS, "json"}

\* A dict is a set of <<key, value>> pairs with distinct keys
dict_get(d, key) ==
    IF \E p \in d : p[1] = key THEN Some((CHOOSE p \in d : p[1] = key)[2]) ELSE None

\* Python truthiness of the result of dict.get on a dict of strings
Truthy(o) == o # None /\ o[1] # ""

\* The kinds of input item: Path, str (path or URL), ByteStream
Sources ==
    { [type |-> "Path", value |-> "foo.pdf", meta |-> {}],
      [type |-> "str", value |-> "https://example.com/doc.pdf", meta |-> {}],
      [type |-> "ByteStream", value |-> "data",
       meta |-> {<<"file_extension", "md">>, <<"filename", "test_file.md">>}],
      [type |-> "ByteStream", value |-> "data", meta |-> {}] }

InputLists == UNION { [1..n -> Sources] : n \in 0..MaxItems }

isinstance(source, t) == source.type = t

\* str(source) for a Path or a str
str(source) == [tmp |-> 0, name |-> source.value]

\* suffix computed by _handle_bytestream
suffix_of(bytestream) ==
    IF Truthy(dict_get(bytestream.meta, "file_extension"))
    THEN Some("." \o dict_get(bytestream.meta, "file_extension")[1])
    ELSE None

\* tempfile.NamedTemporaryFile(suffix=suffix, delete=False).name: a name no
\* existing file has; n is the number of files created before it, plus one
NamedTemporaryFile(n, suffix) ==
    [tmp |-> n, name |-> IF suffix = None THEN "" ELSE suffix[1]]

\* MetaExtractor.extract_chunk_meta
extract_chunk_meta(chunk) == {<<"dl_meta", chunk>>}

\* MetaExtractor.extract_dl_doc_meta
extract_dl_doc_meta(d) ==
    IF d.origin # None THEN {<<"dl_meta", <<"origin", d.origin[1]>> >>} ELSE {}

\* Document(content=chunker.serialize(chunk), meta=extract_chunk_meta(chunk))
ChunkDocument(chunk) ==
    [content |-> <<"serialize", chunk>>, meta |-> extract_chunk_meta(chunk)]

\* Document(content=dl_doc.export_to_markdown(**md_export_kwargs), meta=...)
MarkdownDocument(d, md_export_kwargs) ==
    [content |-> <<"export_to_markdown", d.item, md_export_kwargs>>,
     meta |-> extract_dl_doc_meta(d)]

\* documents.extend(hs_docs)
extend_front(docs, hs) == hs \o docs
extend(docs, hs) == docs \o hs

\* documents.append(hs_doc)
append_front(docs, d) == <<d>> \o docs
append(docs, d) == Append(docs, d)

\* DoclingConverter.__init__
DoclingConverter(converter, convert_kwargs, export_type, md_export_kwargs, chunker, meta_extractor) ==
    [converter |-> IF converter # None THEN converter[1] ELSE "DocumentConverter",
     convert_kwargs |-> IF convert_kwargs # None THEN convert_kwargs[1] ELSE {},
     export_type |-> export_type,
     md_export_kwargs |-> IF md_export_kwargs # None THEN md_export_kwargs[1]
                          ELSE {<<"image_placeholder", "">>},
     chunker |-> IF export_type = DOC_CHUNKS
                 THEN (IF chunker # None THEN chunker[1] ELSE "HybridChunker")
                 ELSE "unset",
     meta_extractor |-> IF meta_extractor # None THEN meta_extractor[1]
                        ELSE "MetaExtractor"]

\* Value of a keyword argument of cls(**init_parameters), or the default
kwarg(params, name, default) ==
    IF name \in DOMAIN params THEN Some(params[name]) ELSE default

\* DoclingConverter.to_dict (haystack default_to_dict)
to_dict_no_md(this) ==
    [type |-> "docling_haystack.converter.DoclingConverter",
     init_parameters |-> [convert_kwargs |-> this.convert_kwargs]]
to_dict_with_export_type(this) ==
    [type |-> "docling_haystack.converter.DoclingConverter",
     init_parameters |-> [convert_kwargs |-> this.convert_kwargs,
                          md_export_kwargs |-> this.md_export_kwargs,
                          export_type |-> this.export_type]]
to_dict(this) ==
    [type |-> "docling_haystack.converter.DoclingConverter",
     init_parameters |-> [convert_kwargs |-> this.convert_kwargs,
                          md_export_kwargs |-> this.md_export_kwargs]]

\* DoclingConverter.from_dict (haystack default_from_dict: cls(**init_parameters))
from_dict(data) ==
    LET p == data.init_parameters IN
    DoclingConverter(kwarg(p, "converter", None),
                     kwarg(p, "convert_kwargs", None),
                     IF "export_type" \in DOMAIN p THEN p.export_type ELSE DOC_CHUNKS,
                     kwarg(p, "md_export_kwargs", None),
                     kwarg(p, "chunker", None),
                     kwarg(p, "meta_extractor", None))

VARIABLES
    self,        \* the component instance (its configuration fields)
    serialized,  \* result of self.to_dict(), or None
    restored,    \* result of from_dict(serialized), or None
    paths,       \* run's argument
    pc,          \* position of run: idle, loop, convert, export, chunks, cleanup, done
    idx,         \* number of items taken from paths
    filepath,    \* local of run
    dl_doc,      \* local of run
    hs_docs,     \* the list being built by the list comprehension
    documents,   \* local of run
    temp_files,  \* local of run
    cidx,        \* number of temp_files visited by the cleanup loop
    exc,         \* the exception propagating out of run, or None
    result,      \* how run exited: None, <<"returned", documents>> or <<"raised", e>>
    fs,          \* temporary files existing on disk
    created,     \* history: temporary files ever created, with their item
    unlinked,    \* history: sequence of unlink calls
    log          \* history: per processed item, what the collaborators did

vars == <<self, serialized, restored, paths, pc, idx, filepath, dl_doc, hs_docs,
          documents, temp_files, cidx, exc, result, fs, created, unlinked, log>>

cfgvars == <<self, serialized, restored>>
histvars == <<created, unlinked>>

RunInit ==
    /\ serialized = None
    /\ restored = None
    /\ paths = <<>>
    /\ pc = "idle"
    /\ idx = 0
    /\ filepath = None
    /\ dl_doc = None
    /\ hs_docs = <<>>
    /\ documents = <<>>
    /\ temp_files = <<>>
    /\ cidx = 0
    /\ exc = None
    /\ result = None
    /\ fs = {}
    /\ created = {}
    /\ unlinked = <<>>
    /\ log = <<>>

\* An instance constructed with an export type and every other argument default
Init ==
    /\ \E et \in ExportTypes :
           self = DoclingConverter(None, None, et, None, None, None)
    /\ RunInit

\* run(paths) is called: documents = [], temp_files = []
Run ==
    /\ pc = "idle"
    /\ \E p \in InputLists : paths' = p
    /\ pc' = "loop"
    /\ documents' = <<>>
    /\ temp_files' = <<>>
    /\ UNCHANGED <<cfgvars, idx, filepath, dl_doc, hs_docs, cidx, exc, result,
                   fs, histvars, log>>

\* except Exception: logger.warning(...); the loop goes on to the next item
HandleException_propagate(conv, doc, n) ==
    /\ pc' = "cleanup"
    /\ exc' = Some("Exception")
    /\ log' = Append(log, [conv |-> conv, doc |-> doc, ok |-> FALSE, n |-> n])
    /\ filepath' = None
    /\ dl_doc' = None
    /\ hs_docs' = <<>>
    /\ UNCHANGED <<documents, cidx, result>>
HandleException(conv, doc, n) ==
    /\ pc' = "loop"
    /\ log' = Append(log, [conv |-> conv, doc |-> doc, ok |-> FALSE, n |-> n])
    /\ filepath' = None
    /\ dl_doc' = None
    /\ hs_docs' = <<>>
    /\ UNCHANGED <<documents, cidx, exc, result>>

\* The item is done without an error; the loop goes on to the next item
ItemDone(n) ==
    /\ pc' = "loop"
    /\ log' = Append(log, [conv |-> "ok", doc |-> dl_doc, ok |-> TRUE, n |-> n])
    /\ filepath' = None
    /\ dl_doc' = None
    /\ hs_docs' = <<>>
    /\ UNCHANGED <<cidx, exc, result>>

\* for source in paths, source a Path or str: filepath = str(source)
NormalizePath ==
    /\ pc = "loop"
    /\ idx < Len(paths)
    /\ ~isinstance(paths[idx + 1], "ByteStream")
    /\ idx' = idx + 1
    /\ filepath' = Some(str(paths[idx + 1]))
    /\ pc' = "convert"
    /\ UNCHANGED <<cfgvars, paths, dl_doc, hs_docs, documents, temp_files, cidx,
                   exc, result, fs, histvars, log>>

\* source a ByteStream, _handle_bytestream returns: the file is written,
\* closed and appended to temp_files
NormalizeByteStream ==
    /\ pc = "loop"
    /\ idx < Len(paths)
    /\ isinstance(paths[idx + 1], "ByteStream")
    /\ LET name == NamedTemporaryFile(Cardinality(created) + 1,
                                      suffix_of(paths[idx + 1])) IN
        /\ fs' = fs \cup {name}
        /\ created' = created \cup {[name |-> name, item |-> idx + 1]}
        /\ filepath' = Some(name)
        /\ temp_files' = Append(temp_files, name)
    /\ idx' = idx + 1
    /\ pc' = "convert"
    /\ UNCHANGED <<cfgvars, paths, dl_doc, hs_docs, documents, cidx, exc, result,
                   unlinked, log>>

\* source a ByteStream, tempfile.NamedTemporaryFile raises: no file is created
TempFileCreateFails ==
    /\ pc = "loop"
    /\ idx < Len(paths)
    /\ isinstance(paths[idx + 1], "ByteStream")
    /\ idx' = idx + 1
    /\ HandleException("none", None, 0)
    /\ UNCHANGED <<cfgvars, paths, temp_files, fs, histvars>>

\* source a ByteStream, temp_file.write or temp_file.close raises: the file
\* exists (delete=False) and _handle_bytestream does not return its name
TempFileWriteFails ==
    /\ pc = "loop"
    /\ idx < Len(paths)
    /\ isinstance(paths[idx + 1], "ByteStream")
    /\ LET name == NamedTemporaryFile(Cardinality(created) + 1,
                                      suffix_of(paths[idx + 1])) IN
        /\ fs' = fs \cup {name}
        /\ created' = created \cup {[name |-> name, item |-> idx + 1]}
    /\ idx' = idx + 1
    /\ HandleException("none", None, 0)
    /\ UNCHANGED <<cfgvars, paths, temp_files, unlinked>>

\* dl_doc = self._converter.convert(source=filepath, **kwargs).document
ConvertOk ==
    /\ pc = "convert"
    /\ \E origin \in {None, Some(filepath[1])} :
           dl_doc' = Some([item |-> idx, origin |-> origin])
    /\ pc' = "export"
    /\ UNCHANGED <<cfgvars, paths, idx, filepath, hs_docs, documents, temp_files,
                   cidx, exc, result, fs, histvars, log>>

\* self._converter.convert raises an Exception
ConvertFails ==
    /\ pc = "convert"
    /\ HandleException("error", None, 0)
    /\ UNCHANGED <<cfgvars, paths, idx, temp_files, fs, histvars>>

\* export_type == DOC_CHUNKS: chunk_iter = self._chunker.chunk(dl_doc=dl_doc)
StartChunks ==
    /\ pc = "export"
    /\ self.export_type = DOC_CHUNKS
    /\ hs_docs' = <<>>
    /\ pc' = "chunks"
    /\ UNCHANGED <<cfgvars, paths, idx, filepath, dl_doc, documents, temp_files,
                   cidx, exc, result, fs, histvars, log>>

\* self._chunker.chunk raises an Exception
ChunkerFails ==
    /\ pc = "export"
    /\ self.export_type = DOC_CHUNKS
    /\ HandleException("ok", dl_doc, 0)
    /\ UNCHANGED <<cfgvars, paths, idx, temp_files, fs, histvars>>

\* chunk_iter yields the next chunk, serialize and extract_chunk_meta return:
\* the Document joins the list the comprehension is building
ChunkYield_eager ==
    /\ pc = "chunks"
    /\ Len(hs_docs) < MaxChunks
    /\ documents' = Append(documents,
                      ChunkDocument([doc |-> dl_doc[1].item, k |-> Len(hs_docs) + 1]))
    /\ hs_docs' = hs_docs
    /\ UNCHANGED <<cfgvars, paths, pc, idx, filepath, dl_doc, temp_files,
                   cidx, exc, result, fs, histvars, log>>
ChunkYield ==
    /\ pc = "chunks"
    /\ Len(hs_docs) < MaxChunks
    /\ hs_docs' = Append(hs_docs,
                    ChunkDocument([doc |-> dl_doc[1].item, k |-> Len(hs_docs) + 1]))
    /\ UNCHANGED <<cfgvars, paths, pc, idx, filepath, dl_doc, documents, temp_files,
                   cidx, exc, result, fs, histvars, log>>

\* chunk_iter yields the next chunk and serialize or extract_chunk_meta
\* raises an Exception for it
ChunkFails ==
    /\ pc = "chunks"
    /\ Len(hs_docs) < MaxChunks
    /\ HandleException("ok", dl_doc, Len(hs_docs) + 1)
    /\ UNCHANGED <<cfgvars, paths, idx, temp_files, fs, histvars>>

\* chunk_iter is exhausted: documents.extend(hs_docs)
ChunksDone ==
    /\ pc = "chunks"
    /\ documents' = extend(documents, hs_docs)
    /\ ItemDone(Len(hs_docs))
    /\ UNCHANGED <<cfgvars, paths, idx, temp_files, fs, histvars>>

\* export_type == MARKDOWN: export_to_markdown and extract_dl_doc_meta
\* return; documents.append(hs_doc)
ExportMarkdown ==
    /\ pc = "export"
    /\ self.export_type = MARKDOWN
    /\ documents' = append(documents,
                           MarkdownDocument(dl_doc[1], self.md_export_kwargs))
    /\ ItemDone(1)
    /\ UNCHANGED <<cfgvars, paths, idx, temp_files, fs, histvars>>

\* export_to_markdown or extract_dl_doc_meta raises an Exception
ExportMarkdownFails ==
    /\ pc = "export"
    /\ self.export_type = MARKDOWN
    /\ HandleException("ok", dl_doc, 0)
    /\ UNCHANGED <<cfgvars, paths, idx, temp_files, fs, histvars>>

\* else: raise RuntimeError("Unexpected export type"), inside the per-item try
UnexpectedExportType ==
    /\ pc = "export"
    /\ self.export_type \notin {DOC_CHUNKS, MARKDOWN}
    /\ HandleException("ok", dl_doc, 0)
    /\ UNCHANGED <<cfgvars, paths, idx, temp_files, fs, histvars>>

\* The for loop ends: return {"documents": documents} enters the finally block
LoopExit ==
    /\ pc = "loop"
    /\ idx = Len(paths)
    /\ pc' = "cleanup"
    /\ cidx' = 0
    /\ UNCHANGED <<cfgvars, paths, idx, filepath, dl_doc, hs_docs, documents,
                   temp_files, exc, result, fs, histvars, log>>

\* A KeyboardInterrupt (a BaseException, which except Exception does not
\* catch) arrives during the call of the conversion engine
Interrupt ==
    /\ pc = "convert"
    /\ exc' = Some("KeyboardInterrupt")
    /\ pc' = "cleanup"
    /\ cidx' = 0
    /\ UNCHANGED <<cfgvars, paths, idx, filepath, dl_doc, hs_docs, documents,
                   temp_files, result, fs, histvars, log>>

\* except Exception in the cleanup loop: logger.debug(...), next temp_file
UnlinkFailed_raise ==
    /\ cidx' = Len(temp_files)
    /\ exc' = Some("OSError")
    /\ UNCHANGED <<pc, fs, documents, result>>
UnlinkFailed ==
    /\ cidx' = cidx + 1
    /\ UNCHANGED <<pc, fs, documents, exc, result>>

\* finally: Path(temp_file).unlink() deletes the file
UnlinkOk ==
    /\ pc = "cleanup"
    /\ cidx < Len(temp_files)
    /\ temp_files[cidx + 1] \in fs
    /\ fs' = fs \ {temp_files[cidx + 1]}
    /\ unlinked' = Append(unlinked, temp_files[cidx + 1])
    /\ cidx' = cidx + 1
    /\ UNCHANGED <<cfgvars, paths, pc, idx, filepath, dl_doc, hs_docs, documents,
                   temp_files, exc, result, created, log>>

\* finally: Path(temp_file).unlink() raises an Exception
UnlinkFails ==
    /\ pc = "cleanup"
    /\ cidx < Len(temp_files)
    /\ unlinked' = Append(unlinked, temp_files[cidx + 1])
    /\ UnlinkFailed
    /\ UNCHANGED <<cfgvars, paths, idx, filepath, dl_doc, hs_docs, temp_files,
                   created, log>>

\* The finally block ends: run returns its value or the exception propagates
CleanupDone ==
    /\ pc = "cleanup"
    /\ cidx = Len(temp_files)
    /\ pc' = "done"
    /\ result' = IF exc = None THEN <<"returned", documents>> ELSE <<"raised", exc[1]>>
    /\ UNCHANGED <<cfgvars, paths, idx, filepath, dl_doc, hs_docs, documents,
                   temp_files, cidx, exc, fs, histvars, log>>

Next ==
    \/ Run
    \/ NormalizePath
    \/ NormalizeByteStream
    \/ TempFileCreateFails
    \/ TempFileWriteFails
    \/ ConvertOk
    \/ ConvertFails
    \/ StartChunks
    \/ ChunkerFails
    \/ ChunkYield
    \/ ChunkFails
    \/ ChunksDone
    \/ ExportMarkdown
    \/ ExportMarkdownFails
    \/ UnexpectedExportType
    \/ LoopExit
    \/ UnlinkOk
    \/ UnlinkFails
    \/ CleanupDone

Spec == Init /\ [][Next]_vars

\* The same program when the caller's process can also be interrupted
NextIntr == Next \/ Interrupt

SpecIntr == Init /\ [][NextIntr]_vars


\* An instance constructed with arguments drawn from small sets
InitSer ==
    /\ \E c \in {None, Some("custom_converter")},
          ck \in {None, Some({}), Some({<<"optimize_ocr", TRUE>>})},
          et \in ExportTypes,
          mk \in {None, Some({}), Some({<<"image_placeholder", "[IMAGE]">>})},
          ch \in {None, Some("custom_chunker")},
          me \in {None, Some("custom_extractor")} :
           self = DoclingConverter(c, ck, et, mk, ch, me)
    /\ RunInit

\* serialized = self.to_dict()
ToDict ==
    /\ pc = "idle"
    /\ serialized' = Some(to_dict(self))
    /\ UNCHANGED <<self, restored, paths, pc, idx, filepath, dl_doc, hs_docs,
                   documents, temp_files, cidx, exc, result, fs, histvars, log>>

\* restored = DoclingConverter.from_dict(serialized)
FromDict ==
    /\ pc = "idle"
    /\ serialized # None
    /\ restored' = Some(from_dict(serialized[1]))
    /\ UNCHANGED <<self, serialized, paths, pc, idx, filepath, dl_doc, hs_docs,
                   documents, temp_files, cidx, exc, result, fs, histvars, log>>

NextSer == ToDict \/ FromDict

SpecSer == InitSer /\ [][NextSer]_vars

(***************************************************************************)
(* Operators used to state the properties                                  *)
(***************************************************************************)

\* The input item a record was made from
ItemOf(rec) ==
    IF rec.content[1] = "serialize" THEN rec.content[2].doc ELSE rec.content[2]

ItemsOf(docs) == [k \in 1..Len(docs) |-> ItemOf(docs[k])]

RecordsOf(docs, i) == SelectSeq(docs, LAMBDA r : ItemOf(r) = i)

InSeq(x, seq) == \E k \in 1..Len(seq) : seq[k] = x

Count(x, seq) == Cardinality({k \in 1..Len(seq) : seq[k] = x})

\* What one item contributes, from what the collaborators did for it
Contribution(e) ==
    IF ~e.ok THEN <<>>
    ELSE IF self.export_type = DOC_CHUNKS
         THEN [k \in 1..e.n |-> ChunkDocument([doc |-> e.doc[1].item, k |-> k])]
         ELSE <<MarkdownDocument(e.doc[1], self.md_export_kwargs)>>

RECURSIVE Flatten(_)
Flatten(n) == IF n = 0 THEN <<>> ELSE Flatten(n - 1) \o Contribution(log[n])

RECURSIVE SumChunks(_)
SumChunks(n) ==
    IF n = 0 THEN 0 ELSE SumChunks(n - 1) + (IF log[n].ok THEN log[n].n ELSE 0)

\* The indices of the log entries satisfying a condition, in input order
Indices(Cond(_)) == SelectSeq([i \in 1..Len(log) |-> i], LAMBDA i : Cond(log[i]))

Returned == result # None /\ result[1] = "returned"
Raised == result # None /\ result[1] = "raised"

\* C1: with an export mode that is neither markdown nor doc_chunks, run on a
\* non-empty list whose first item reaches the mode branch raises to the
\* caller, processes no later item and returns no record list.
C1_FatalMisconfiguration ==
    (/\ pc = "done"
     /\ self.export_type \notin {MARKDOWN, DOC_CHUNKS}
     /\ Len(paths) > 0
     /\ Len(log) > 0
     /\ log[1].conv = "ok")
    => (Raised /\ idx = 1)

\* C2: when the conversion engine raises on item i, run returns normally,
\* every other item has been processed, and each other item's records in the
\* returned list are exactly what that item contributes on its own.
C2_ConversionFailureIsolated ==
    pc = "done" =>
        \A i \in 1..Len(log) :
            log[i].conv = "error" =>
                /\ Returned
                /\ Len(log) = Len(paths)
                /\ \A j \in (1..Len(paths)) \ {i} :
                       RecordsOf(result[2], j) = Contribution(log[j])

C2_Witness ==
    /\ pc = "done"
    /\ Len(log) = 2
    /\ log[1].conv = "error"
    /\ log[2].ok
    /\ Len(RecordsOf(documents, 2)) >= 1

\* C3: when run exits, every temporary file created during the run is tracked
\* in temp_files and has had its deletion performed, whichever later step of
\* its item failed.
C3_EveryTempFileDeleted ==
    pc = "done" =>
        \A c \in created : InSeq(c.name, temp_files) /\ InSeq(c.name, unlinked)

\* C4: in doc_chunks mode the returned list is the concatenation, in input
\* order, of the chunk records of every non-failing item; its length is the
\* sum of their chunk counts and no record of a later item precedes a record
\* of an earlier one.
C4_ChunkConcatenation ==
    (pc = "done" /\ self.export_type = DOC_CHUNKS /\ Returned) =>
        /\ Len(log) = Len(paths)
        /\ result[2] = Flatten(Len(log))
        /\ Len(result[2]) = SumChunks(Len(log))
        /\ \A a, b \in 1..Len(result[2]) :
               a < b => \/ ItemOf(result[2][a]) < ItemOf(result[2][b])
                        \/ /\ ItemOf(result[2][a]) = ItemOf(result[2][b])
                           /\ result[2][a].content[2].k < result[2][b].content[2].k

C4_Witness ==
    /\ pc = "done"
    /\ self.export_type = DOC_CHUNKS
    /\ Returned
    /\ Len(log) = 2
    /\ log[1].ok /\ log[1].n = 2
    /\ log[2].ok /\ log[2].n >= 1

\* C5 as stated: in markdown mode run returns exactly one record for each
\* item whose conversion succeeded, none for any other, in input order.
C5_OneRecordPerConverted ==
    (pc = "done" /\ self.export_type = MARKDOWN /\ Returned) =>
        ItemsOf(result[2]) = Indices(LAMBDA e : e.conv = "ok")

\* C5 amended: in markdown mode run returns exactly one record for each item
\* for which conversion, markdown export and metadata extraction all
\* succeeded, none for any other item, in input order.
C5_OneRecordPerSucceeded ==
    (pc = "done" /\ self.export_type = MARKDOWN /\ Returned) =>
        /\ ItemsOf(result[2]) = Indices(LAMBDA e : e.ok)
        /\ \A k \in 1..Len(result[2]) :
               result[2][k].content =
                   <<"export_to_markdown", ItemOf(result[2][k]), self.md_export_kwargs>>

C5_Witness ==
    /\ pc = "done"
    /\ self.export_type = MARKDOWN
    /\ Returned
    /\ Len(log) = 2
    /\ log[1].conv = "ok" /\ ~log[1].ok
    /\ log[2].ok
    /\ Len(result[2]) = 1

\* C6: from_dict(to_dict(instance)) has the conversion parameters and the
\* markdown export parameters of the instance.
C6_RoundTrip ==
    restored # None =>
        /\ restored[1].convert_kwargs = self.convert_kwargs
        /\ restored[1].md_export_kwargs = self.md_export_kwargs

C6_Witness ==
    /\ restored # None
    /\ self.convert_kwargs = {<<"optimize_ocr", TRUE>>}
    /\ self.md_export_kwargs = {<<"image_placeholder", "[IMAGE]">>}

\* C7: a failing deletion never raises out of run, never changes the returned
\* record list nor the error already propagating, and the remaining temporary
\* files still have their deletion attempted.
C7_CleanupFaultSuppressed ==
    pc = "done" =>
        /\ unlinked = temp_files
        /\ Raised <=> Len(log) < idx
        /\ Raised => result[2] = "KeyboardInterrupt"
        /\ Returned => result[2] = Flatten(Len(log))

C7_Witness ==
    /\ pc = "done"
    /\ Len(temp_files) = 2
    /\ temp_files[1] \in fs
    /\ temp_files[2] \notin fs
    /\ Returned
    /\ Len(result[2]) >= 1

\* C8: an item for which any step after normalization raised contributes no
\* record, also when the failure is on its k-th chunk, and the step that
\* handles the failure leaves the records collected so far unchanged.
C8_FailedItemContributesNothing ==
    /\ [](\A i \in 1..Len(log) : ~log[i].ok => RecordsOf(documents, i) = <<>>)
    /\ [][(Len(log') = Len(log) + 1 /\ ~log'[Len(log')].ok)
              => documents' = documents]_vars

C8_Witness ==
    /\ pc = "done"
    /\ Len(log) = 2
    /\ log[1].ok /\ log[1].n >= 1
    /\ ~log[2].ok /\ log[2].n = 2
    /\ Len(documents) = log[1].n

\* C9: a temporary file is created only for a ByteStream item, exists when
\* the conversion engine is invoked on its item, none is deleted before the
\* loop over the items has ended, and when run exits the deletion of every
\* created file has been attempted exactly once.
C9_TempFileLifecycle ==
    /\ \A c \in created : isinstance(paths[c.item], "ByteStream")
    /\ (pc = "convert" /\ isinstance(paths[idx], "ByteStream")) => filepath[1] \in fs
    /\ pc \notin {"cleanup", "done"} => unlinked = <<>>
    /\ pc = "done" => \A c \in created : Count(c.name, unlinked) = 1

\* C10: to_dict carries only convert_kwargs and md_export_kwargs, so
\* from_dict(to_dict(instance)) has export mode doc_chunks and the default
\* collaborators, whatever the instance was constructed with.
C10_ExportTypeNotCarried ==
    /\ serialized # None =>
           DOMAIN serialized[1].init_parameters = {"convert_kwargs", "md_export_kwargs"}
    /\ restored # None =>
           /\ restored[1].export_type = DOC_CHUNKS
           /\ restored[1].converter = "DocumentConverter"
           /\ restored[1].chunker = "HybridChunker"
           /\ restored[1].meta_extractor = "MetaExtractor"

C10_Witness ==
    /\ restored # None
    /\ self.export_type = MARKDOWN
    /\ self.converter = "custom_converter"
    /\ self.meta_extractor = "custom_extractor"

====
